---- MODULE Spec2Model ----
(***************************************************************************)
(* State-machine model of src/app.py, the Sales Forecast Visualizer.       *)
(* One run of the script is a pipeline: load and validate the uploaded     *)
(* CSV, filter it, aggregate by date, show key metrics, forecast, and      *)
(* evaluate the naive model.  Text is a sequence of characters, a date     *)
(* after parsing is a day ordinal (days since 2023-12-31), and a float is  *)
(* a fraction [n, d] whose denominator 0 stands for NaN.                   *)
(***************************************************************************)
EXTENDS Integers, Sequences, FiniteSets, TLC

VARIABLES uploaded_file, pc, ui, df,
          region_filter, product_filter, start_date, end_date,
          filtered_df, grouped_by_date,
          key_metrics, grouped_by_product, grouped_by_region,
          forecast_horizon, forecast_df, hist_and_fcst_df,
          filtered_grouped_by_date, mae, mse, rmse, mape

vars == <<uploaded_file, pc, ui, df,
          region_filter, product_filter, start_date, end_date,
          filtered_df, grouped_by_date,
          key_metrics, grouped_by_product, grouped_by_region,
          forecast_horizon, forecast_df, hist_and_fcst_df,
          filtered_grouped_by_date, mae, mse, rmse, mape>>

(***************************************************************************)
(* Bounds of the model.                                                    *)
(***************************************************************************)
MaxRows == 2
MaxDate == 2
MaxLen == 8
MaxHorizon == 8

(***************************************************************************)
(* Constants of the program.                                               *)
(***************************************************************************)
min_value == 7
max_value == 60
window == 7

(***************************************************************************)
(* Column names and cell values.                                           *)
(***************************************************************************)
cDate == <<"D", "a", "t", "e">>
cRegion == <<"R", "e", "g", "i", "o", "n">>
cProduct == <<"P", "r", "o", "d", "u", "c", "t">>
cSales == <<"S", "a", "l", "e", "s">>
cNotes == <<"N", "o", "t", "e", "s">>
cLowerDate == <<"d", "a", "t", "e">>

needed_cols == <<cDate, cRegion, cProduct, cSales>>

Regions == {"North", "South"}
Products == {"A", "B"}
SeriesValues == {-1, 0, 2}

(***************************************************************************)
(* Generic helpers on sequences and integers.                              *)
(***************************************************************************)
Range(s) == {s[i] : i \in 1..Len(s)}

Abs(x) == IF x < 0 THEN -x ELSE x

MinInt(a, b) == IF a <= b THEN a ELSE b

SetMin(S) == CHOOSE x \in S : \A y \in S : x <= y

SetMax(S) == CHOOSE x \in S : \A y \in S : y <= x

\* The sequences over S of length lo..hi.
SeqsOf(S, lo, hi) == UNION {[1..n -> S] : n \in lo..hi}

(***************************************************************************)
(* Dates.  The file holds text; pd.to_datetime(format="%Y-%m-%d") turns    *)
(* year-month-day text into a timestamp, here the day ordinal within 2024. *)
(***************************************************************************)
DaysBefore(m) == IF m = 1 THEN 0 ELSE 31

WellFormed(c) == Len(c) = 5 /\ c[2] = "-" /\ c[4] = "-"

to_datetime(c) == DaysBefore(c[3]) + c[5]

\* The k-th calendar day the input files use, from 2024-01-31 on.
DayText(k) ==
    IF k = 1 THEN <<2024, "-", 1, "-", 31>> ELSE <<2024, "-", 2, "-", k - 1>>

BadDayText == <<31, "/", 1, "/", 2024>>

(***************************************************************************)
(* The uploaded CSV: a header of raw column names and rows of cells in     *)
(* header order.                                                           *)
(***************************************************************************)
Pad(name, p) ==
    (IF p[1] = 1 THEN <<" ">> ELSE <<>>) \o name
        \o (IF p[2] = 1 THEN <<" ">> ELSE <<>>)

Pads == {<<0, 0>>, <<1, 0>>, <<0, 1>>, <<1, 1>>}

Orders == { <<cDate, cRegion, cProduct, cSales>>,
            <<cSales, cProduct, cRegion, cDate>>,
            <<cNotes, cRegion, cDate, cSales, cProduct>>,
            <<cLowerDate, cRegion, cProduct, cSales>> }

FieldOf(r, name) ==
    IF name = cDate \/ name = cLowerDate THEN r.Date
    ELSE IF name = cRegion THEN r.Region
    ELSE IF name = cProduct THEN r.Product
    ELSE IF name = cSales THEN r.Sales
    ELSE <<"n">>

\* The file whose columns are those of `order` kept in `present`, each
\* header padded by p, holding the logical rows t.
FileOf(order, present, p, t) ==
    LET Kept(name) == name \in present
        cols == SelectSeq(order, Kept)
    IN [header |-> [j \in 1..Len(cols) |-> Pad(cols[j], p)],
        rows |-> [i \in 1..Len(t) |->
                     [j \in 1..Len(cols) |-> FieldOf(t[i], cols[j])]]]

CanonicalFile(t) == FileOf(needed_cols, Range(needed_cols), <<0, 0>>, t)

\* What a row of a table may hold besides its sales.
RowKeys ==
    [Date : {DayText(k) : k \in 1..MaxDate}, Region : Regions, Product : Products]

\* The sales of the i-th row of a table: -1, 2, 7, 14, ..., so that the sum
\* over a set of rows tells which rows they are.
SalesAt(i) == i * i - 2

\* Files with every header layout over a few small tables.
LayoutTables ==
    { << [Date |-> DayText(1), Region |-> "North", Product |-> "A", Sales |-> 2] >>,
      << [Date |-> DayText(2), Region |-> "North", Product |-> "A", Sales |-> 2],
         [Date |-> DayText(1), Region |-> "South", Product |-> "B", Sales |-> -1] >>,
      << [Date |-> BadDayText, Region |-> "North", Product |-> "A", Sales |-> 2] >> }

LayoutUploads ==
    { f \in { FileOf(o, present, p, t) :
                o \in Orders,
                present \in SUBSET {cDate, cRegion, cProduct, cSales, cNotes, cLowerDate},
                p \in Pads, t \in LayoutTables } :
        f.header # <<>> }

\* Files with the plain header over every table of 1..MaxRows rows.
TableUploads ==
    { CanonicalFile([i \in 1..Len(t) |->
          [Date |-> t[i].Date, Region |-> t[i].Region, Product |-> t[i].Product,
           Sales |-> SalesAt(i)]]) :
        t \in SeqsOf(RowKeys, 1, MaxRows) }

Uploads == LayoutUploads \cup TableUploads

\* Files with one row per day on consecutive days, one region, one product.
SeriesUploads ==
    { CanonicalFile([i \in 1..Len(v) |->
          [Date |-> DayText(i), Region |-> "North", Product |-> "A", Sales |-> v[i]]]) :
        v \in SeqsOf(SeriesValues, 1, MaxLen) }

(***************************************************************************)
(* Floats as fractions; a zero denominator is NaN, as the mean of an empty *)
(* column is.                                                              *)
(***************************************************************************)
Frac(x) == [n |-> x, d |-> 1]

NaN == [n |-> 0, d |-> 0]

IsNaN(a) == a.d = 0

FracSub(a, b) ==
    IF IsNaN(a) \/ IsNaN(b) THEN NaN ELSE [n |-> a.n * b.d - b.n * a.d, d |-> a.d * b.d]

FracAdd(a, b) ==
    IF IsNaN(a) \/ IsNaN(b) THEN NaN ELSE [n |-> a.n * b.d + b.n * a.d, d |-> a.d * b.d]

FracMul(a, b) ==
    IF IsNaN(a) \/ IsNaN(b) THEN NaN ELSE [n |-> a.n * b.n, d |-> a.d * b.d]

\* abs() of a float: the sign of the quotient is dropped.
FracAbs(a) == IF IsNaN(a) THEN NaN ELSE [n |-> Abs(a.n), d |-> Abs(a.d)]

\* a / k for a nonzero integer k.
FracDivInt(a, k) == IF IsNaN(a) THEN NaN ELSE [n |-> a.n, d |-> a.d * k]

\* Equality and order of the quotients two fractions stand for.
FracEq(a, b) ==
    IF IsNaN(a) \/ IsNaN(b) THEN IsNaN(a) /\ IsNaN(b) ELSE a.n * b.d = b.n * a.d

FracLeq(a, b) ==
    /\ ~IsNaN(a)
    /\ ~IsNaN(b)
    /\ IF (a.d > 0) = (b.d > 0) THEN a.n * b.d <= b.n * a.d
                                ELSE a.n * b.d >= b.n * a.d

RECURSIVE SumInts(_)
SumInts(s) == IF s = <<>> THEN 0 ELSE Head(s) + SumInts(Tail(s))

RECURSIVE SumFracs(_)
SumFracs(s) == IF s = <<>> THEN Frac(0) ELSE FracAdd(Head(s), SumFracs(Tail(s)))

\* Series.mean() of integers, NaN over no rows.
MeanInts(s) == [n |-> SumInts(s), d |-> Len(s)]

\* Series.mean() of floats, NaN over no rows.
MeanFracs(s) == IF s = <<>> THEN NaN ELSE FracDivInt(SumFracs(s), Len(s))

(***************************************************************************)
(* Data frames: the column names and the rows, each row keeping its index  *)
(* label and its cells in column order.                                    *)
(***************************************************************************)
EmptyFrame == [columns |-> <<>>, rows |-> <<>>]

\* str.strip() of a column header.
RECURSIVE strip(_)
strip(h) ==
    IF h = <<>> THEN h
    ELSE IF Head(h) = " " THEN strip(Tail(h))
    ELSE IF h[Len(h)] = " " THEN strip(SubSeq(h, 1, Len(h) - 1))
    ELSE h

\* pd.read_csv followed by the renaming of the columns to their stripped names.
read_csv(f) ==
    [columns |-> [j \in 1..Len(f.header) |-> strip(f.header[j])],
     rows |-> [i \in 1..Len(f.rows) |-> [idx |-> i - 1, cells |-> f.rows[i]]]]

HasColumn(d, name) == name \in Range(d.columns)

ColIndex(d, name) == CHOOSE j \in 1..Len(d.columns) : d.columns[j] = name

\* d[name] read off one row.
Cell(d, r, name) == r.cells[ColIndex(d, name)]

\* d[name] as a sequence of values in row order.
Column(d, name) == [i \in 1..Len(d.rows) |-> Cell(d, d.rows[i], name)]

\* df["Date"] = pd.to_datetime(df["Date"], format="%Y-%m-%d")
ParseDates(d) ==
    LET j == ColIndex(d, cDate)
    IN [d EXCEPT !.rows =
           [i \in 1..Len(d.rows) |->
               [d.rows[i] EXCEPT !.cells[j] = to_datetime(d.rows[i].cells[j])]]]

DatesWellFormed(d) == \A i \in 1..Len(d.rows) : WellFormed(Cell(d, d.rows[i], cDate))

MissingColumns(d) == {c \in Range(needed_cols) : ~HasColumn(d, c)}

\* d[mask] keeps the rows satisfying the mask, in row order, indexes kept.

isin(d, name, values) ==
    LET Keep(r) == Cell(d, r, name) \in values
    IN [d EXCEPT !.rows = SelectSeq(d.rows, Keep)]

\* between with the end date left out of the range.
betweenExclusive(d, lo, hi) ==
    LET Keep(r) == Cell(d, r, cDate) >= lo /\ Cell(d, r, cDate) < hi
    IN [d EXCEPT !.rows = SelectSeq(d.rows, Keep)]

between(d, lo, hi) ==
    LET Keep(r) == Cell(d, r, cDate) >= lo /\ Cell(d, r, cDate) <= hi
    IN [d EXCEPT !.rows = SelectSeq(d.rows, Keep)]

\* Lines 45-53: the three filters applied in turn to a copy of df.
ApplyFilters(d, rf, pf, lo, hi) ==
    LET byRegion == IF rf # {} THEN isin(d, cRegion, rf) ELSE d
        byProduct == IF pf # {} THEN isin(byRegion, cProduct, pf) ELSE byRegion
    IN between(byProduct, lo, hi)

\* empty taken to hold of a single row too.
emptyOrSingle(d) == Len(d.rows) <= 1

empty(d) == Len(d.rows) = 0

\* groupby("Date", as_index=False)["Sales"].sum().sort_values("Date"):
\* one row per distinct date, ascending, holding the sum of its Sales.
RECURSIVE SortAsc(_)
SortAsc(S) ==
    IF S = {} THEN <<>> ELSE <<SetMin(S)>> \o SortAsc(S \ {SetMin(S)})

\* The group's first value in place of its sum.
GroupFirst(d, key, x) ==
    LET InGroup(r) == Cell(d, r, key) = x
        members == SelectSeq(d.rows, InGroup)
    IN Cell(d, members[1], cSales)

GroupSum(d, key, x) ==
    LET InGroup(r) == Cell(d, r, key) = x
        members == SelectSeq(d.rows, InGroup)
    IN SumInts([i \in 1..Len(members) |-> Cell(d, members[i], cSales)])

GroupByDate(d) ==
    LET keys == SortAsc(Range(Column(d, cDate)))
    IN [i \in 1..Len(keys) |-> [Date |-> keys[i], Sales |-> GroupSum(d, cDate, keys[i])]]

(***************************************************************************)
(* The stages after aggregation.                                           *)
(***************************************************************************)
\* groupby(key, as_index=False)["Sales"].sum(), as a map from category to sum.
GroupByCategory(d, key) ==
    [x \in Range(Column(d, key)) |-> GroupSum(d, key, x)]

\* Lines 73-80: total, average daily sales, best day and its date.
KeyMetricsOf(fd, g) ==
    LET sales == [i \in 1..Len(g) |-> g[i].Sales]
        max_sale == SetMax(Range(sales))
        AtMax(r) == r.Sales = max_sale
        hits == SelectSeq(g, AtMax)
    IN [sales_total |-> SumInts(Column(fd, cSales)),
        daily_sales_avg |-> MeanInts(sales),
        max_sale |-> max_sale,
        peak_day |-> hits[Len(hits)].Date]

\* Series.iloc[-k:]: the last k values, all of them when there are fewer.
Tail_k(s, k) == SubSeq(s, Len(s) - MinInt(k, Len(s)) + 1, Len(s))

\* The range started on the last historical day itself.
forecast_range_from_last(g, h) ==
    LET last_day == SetMax({g[i].Date : i \in 1..Len(g)})
    IN [i \in 1..h |-> last_day + (i - 1)]

\* Lines 104-107: the day after the last day, then one date per day.
forecast_range(g, h) ==
    LET last_day == SetMax({g[i].Date : i \in 1..Len(g)})
        first_day_of_fcst_horizon == last_day + 1
    IN [i \in 1..h |-> first_day_of_fcst_horizon + (i - 1)]

\* The first value in place of the last: iloc[0].
naive_forecast_first(g) == g[1].Sales

\* Line 113: grouped_by_date['Sales'].iloc[-1]
naive_forecast(g) == g[Len(g)].Sales

\* The mean of the whole series, without the window.
mean_of_all(g) == MeanInts([i \in 1..Len(g) |-> g[i].Sales])

\* Line 115: grouped_by_date['Sales'].iloc[-7:].mean()
last_7_days(g) == MeanInts(Tail_k([i \in 1..Len(g) |-> g[i].Sales], window))

\* Lines 107-117: the forecast table.
ForecastTable(g, h) ==
    LET dates == forecast_range(g, h)
    IN [i \in 1..h |->
           [Date |-> dates[i],
            Naive_Forecast |-> naive_forecast(g),
            Moving_Average |-> last_7_days(g)]]

\* Lines 119-121: history and forecast stacked, absent cells NaN.
HistAndFcst(g, f) ==
    [i \in 1..Len(g) |->
        [Date |-> g[i].Date, Actuals |-> Frac(g[i].Sales),
         Naive_Forecast |-> NaN, Moving_Average |-> NaN]]
    \o
    [i \in 1..Len(f) |->
        [Date |-> f[i].Date, Actuals |-> NaN,
         Naive_Forecast |-> Frac(f[i].Naive_Forecast),
         Moving_Average |-> f[i].Moving_Average]]

\* The shift in the other direction: shift(-1).
shift_back(s) == [i \in 1..Len(s) |-> IF i = Len(s) THEN NaN ELSE Frac(s[i + 1])]

\* Series.shift(1): every value moves one row down, the first row gets NaN.
shift(s) == [i \in 1..Len(s) |-> IF i = 1 THEN NaN ELSE Frac(s[i - 1])]

\* Lines 133-139: Sales renamed Actuals, and the three derived columns.
WithErrors(g) ==
    LET actuals == [i \in 1..Len(g) |-> g[i].Sales]
        pred == shift(actuals)
    IN [i \in 1..Len(g) |->
           LET diff == FracSub(Frac(actuals[i]), pred[i])
           IN [Date |-> g[i].Date,
               Actuals |-> actuals[i],
               Naive_Prediction |-> pred[i],
               Absolute_Error |-> FracAbs(diff),
               Squared_Error |-> FracMul(diff, diff)]]

\* DataFrame.iloc[1:]
DropFirst(t) == SubSeq(t, 2, Len(t))

\* Lines 155-159: the rows with a nonzero actual, error over actual, times
\* 100, averaged.
MapeOf(t) ==
    LET Nonzero(r) == r.Actuals # 0
        for_mape == SelectSeq(t, Nonzero)
        ape == [i \in 1..Len(for_mape) |->
                   FracDivInt(for_mape[i].Absolute_Error, for_mape[i].Actuals)]
    IN MeanFracs([i \in 1..Len(ape) |-> FracMul(ape[i], Frac(100))])

(***************************************************************************)
(* The state machine.                                                      *)
(***************************************************************************)
Unset ==
    /\ ui = <<>>
    /\ df = EmptyFrame
    /\ region_filter = {}
    /\ product_filter = {}
    /\ start_date = 0
    /\ end_date = 0
    /\ filtered_df = EmptyFrame
    /\ grouped_by_date = <<>>

Unforecast ==
    /\ key_metrics = <<>>
    /\ grouped_by_product = <<>>
    /\ grouped_by_region = <<>>
    /\ forecast_horizon = 0
    /\ forecast_df = <<>>
    /\ hist_and_fcst_df = <<>>
    /\ filtered_grouped_by_date = <<>>
    /\ mae = NaN
    /\ mse = NaN
    /\ rmse = NaN
    /\ mape = NaN

\* A file has been uploaded and the script starts.
Init ==
    /\ uploaded_file \in Uploads
    /\ pc = "load"
    /\ Unset
    /\ Unforecast

\* Lines 23-31: read, strip the headers, parse the dates, check the columns.
Load ==
    /\ pc = "load"
    /\ LET raw == read_csv(uploaded_file)
       IN IF ~HasColumn(raw, cDate)
          THEN \* line 25: df["Date"] raises KeyError
               /\ df' = raw
               /\ pc' = "KeyError"
               /\ ui' = ui
          ELSE IF ~DatesWellFormed(raw)
          THEN \* line 25: to_datetime raises ValueError
               /\ df' = raw
               /\ pc' = "ValueError"
               /\ ui' = ui
          ELSE /\ df' = ParseDates(raw)
               /\ IF MissingColumns(raw) # {}
                  THEN /\ ui' = Append(ui, "error: Missing necessary column.")
                       /\ pc' = "stopped"
                  ELSE /\ ui' = Append(ui, "success: CSV loaded successfully!")
                       /\ pc' = "loaded"
    /\ UNCHANGED <<uploaded_file, region_filter, product_filter, start_date, end_date,
                   filtered_df, grouped_by_date,
                   key_metrics, grouped_by_product, grouped_by_region,
                   forecast_horizon, forecast_df, hist_and_fcst_df,
                   filtered_grouped_by_date, mae, mse, rmse, mape>>

\* Lines 33-60: the sidebar selections, the filters and the grouping by date.
Filter ==
    /\ pc = "loaded"
    /\ LET regions == Range(Column(df, cRegion))
           products == Range(Column(df, cProduct))
           min_date == SetMin(Range(Column(df, cDate)))
           max_date == SetMax(Range(Column(df, cDate)))
       IN \E rf \in SUBSET regions, pf \in SUBSET products,
             lo \in min_date..max_date, hi \in min_date..max_date :
             /\ lo <= hi
             /\ region_filter' = rf
             /\ product_filter' = pf
             /\ start_date' = lo
             /\ end_date' = hi
             /\ filtered_df' = ApplyFilters(df, rf, pf, lo, hi)
             /\ grouped_by_date' = GroupByDate(filtered_df')
    /\ pc' = "grouped"
    /\ UNCHANGED <<uploaded_file, ui, df,
                   key_metrics, grouped_by_product, grouped_by_region,
                   forecast_horizon, forecast_df, hist_and_fcst_df,
                   filtered_grouped_by_date, mae, mse, rmse, mape>>

\* Lines 62-63: nothing is left after filtering.
NoData ==
    /\ pc = "grouped"
    /\ empty(filtered_df)
    /\ ui' = Append(ui, "warning: No data for selected filters")
    /\ pc' = "no_data"
    /\ UNCHANGED <<uploaded_file, df, region_filter, product_filter, start_date, end_date,
                   filtered_df, grouped_by_date,
                   key_metrics, grouped_by_product, grouped_by_region,
                   forecast_horizon, forecast_df, hist_and_fcst_df,
                   filtered_grouped_by_date, mae, mse, rmse, mape>>

\* Lines 65-95: the line chart, the key metrics and the two breakdowns.
Charts ==
    /\ pc = "grouped"
    /\ ~empty(filtered_df)
    /\ key_metrics' = KeyMetricsOf(filtered_df, grouped_by_date)
    /\ grouped_by_product' = GroupByCategory(filtered_df, cProduct)
    /\ grouped_by_region' = GroupByCategory(filtered_df, cRegion)
    /\ ui' = ui \o <<"metric: Total Sales", "metric: Avg. Daily Sales", "metric: Peak Day">>
    /\ pc' = "charts"
    /\ UNCHANGED <<uploaded_file, df, region_filter, product_filter, start_date, end_date,
                   filtered_df, grouped_by_date,
                   forecast_horizon, forecast_df, hist_and_fcst_df,
                   filtered_grouped_by_date, mae, mse, rmse, mape>>

\* Lines 99-127: the horizon slider and the two flat forecasts.
Forecast ==
    /\ pc = "charts"
    /\ \E h \in min_value..MinInt(max_value, MaxHorizon) :
          /\ forecast_horizon' = h
          /\ forecast_df' = ForecastTable(grouped_by_date, h)
          /\ hist_and_fcst_df' = HistAndFcst(grouped_by_date, forecast_df')
    /\ pc' = "forecast"
    /\ UNCHANGED <<uploaded_file, ui, df, region_filter, product_filter,
                   start_date, end_date, filtered_df, grouped_by_date,
                   key_metrics, grouped_by_product, grouped_by_region,
                   filtered_grouped_by_date, mae, mse, rmse, mape>>

\* Lines 131-168: the lagged predictions, their errors and the three metrics.
Evaluate ==
    /\ pc = "forecast"
    /\ grouped_by_date' = WithErrors(grouped_by_date)
    /\ filtered_grouped_by_date' = DropFirst(grouped_by_date')
    /\ mae' = MeanFracs([i \in 1..Len(filtered_grouped_by_date') |->
                            filtered_grouped_by_date'[i].Absolute_Error])
    /\ mse' = MeanFracs([i \in 1..Len(filtered_grouped_by_date') |->
                            filtered_grouped_by_date'[i].Squared_Error])
    /\ rmse' = [sqrt_of |-> mse']
    /\ mape' = MapeOf(filtered_grouped_by_date')
    /\ ui' = ui \o <<"metric: MAE", "metric: RMSE", "metric: MAPE">>
    /\ pc' = "done"
    /\ UNCHANGED <<uploaded_file, df, region_filter, product_filter,
                   start_date, end_date, filtered_df,
                   key_metrics, grouped_by_product, grouped_by_region,
                   forecast_horizon, forecast_df, hist_and_fcst_df>>

Next == Load \/ Filter \/ NoData \/ Charts \/ Forecast \/ Evaluate

Spec == Init /\ [][Next]_vars

\* The script has reached line 62 on a file with one row per consecutive
\* day, nothing filtered out: the state the forecaster and the evaluator
\* start from.
InitSeries ==
    /\ uploaded_file \in SeriesUploads
    /\ pc = "grouped"
    /\ ui = <<"success: CSV loaded successfully!">>
    /\ df = ParseDates(read_csv(uploaded_file))
    /\ region_filter = {}
    /\ product_filter = {}
    /\ start_date = SetMin(Range(Column(df, cDate)))
    /\ end_date = SetMax(Range(Column(df, cDate)))
    /\ filtered_df = ApplyFilters(df, {}, {}, start_date, end_date)
    /\ grouped_by_date = GroupByDate(filtered_df)
    /\ Unforecast

NextSeries == Charts \/ Forecast \/ Evaluate

SpecSeries == InitSeries /\ [][NextSeries]_vars

(***************************************************************************)
(* Vocabulary of the properties.                                           *)
(***************************************************************************)
AfterFilter == pc \in {"grouped", "no_data", "charts", "forecast", "done"}

AfterForecast == pc \in {"forecast", "done"}

\* The headers of the uploaded file after trimming, and the required
\* columns not among them.
TrimmedHeaders == {strip(uploaded_file.header[j]) : j \in 1..Len(uploaded_file.header)}

MissingFromFile == {c \in Range(needed_cols) : c \notin TrimmedHeaders}

\* The date cells of the file, where it has a Date column, are well formed.
FileDatesWellFormed ==
    \A j \in 1..Len(uploaded_file.header) :
        strip(uploaded_file.header[j]) = cDate =>
            \A i \in 1..Len(uploaded_file.rows) : WellFormed(uploaded_file.rows[i][j])

\* Field `name` of a record of df.
Field(r, name) == r.cells[CHOOSE j \in 1..Len(df.columns) : df.columns[j] = name]

\* The FilterSpec's predicate on a record.
Retained(r) ==
    /\ region_filter = {} \/ Field(r, cRegion) \in region_filter
    /\ product_filter = {} \/ Field(r, cProduct) \in product_filter
    /\ start_date <= Field(r, cDate)
    /\ Field(r, cDate) <= end_date

\* The retained records, and the length and entries of the DailySeries.
Records == filtered_df.rows

NumRecords == Len(filtered_df.rows)

n_days == Len(grouped_by_date)

DayOf(i) == grouped_by_date[i].Date

Actual(i) == IF pc = "done" THEN grouped_by_date[i].Actuals ELSE grouped_by_date[i].Sales

\* The actuals of the days a..b of the series, in order.
ActualsFromTo(a, b) == [i \in 1..(b - a + 1) |-> Actual(a + i - 1)]

SalesOfRecord(i) == Field(Records[i], cSales)

LatestDate == SetMax({Field(Records[i], cDate) : i \in 1..NumRecords})

SalesOnLatestDate(i) ==
    IF Field(Records[i], cDate) = LatestDate THEN SalesOfRecord(i) ELSE 0

AbsDiff(j) == Abs(Actual(j + 1) - Actual(j))

SqDiff(j) == (Actual(j + 1) - Actual(j)) * (Actual(j + 1) - Actual(j))

Shown(msg) == msg \in Range(ui)

(***************************************************************************)
(* C1.  Schema validation: a file that lacks one of Date, Region, Product, *)
(* Sales after trimming the headers ends in the missing-column error and   *)
(* no later stage runs, whichever column is the missing one; a file with   *)
(* all four and well-formed dates is accepted.  Stated for files whose     *)
(* date cells are well formed.                                             *)
(***************************************************************************)
C1_SchemaError ==
    (pc # "load" /\ FileDatesWellFormed) =>
        IF MissingFromFile # {}
        THEN /\ pc = "stopped"
             /\ ui = <<"error: Missing necessary column.">>
        ELSE pc \notin {"stopped", "KeyError", "ValueError"}

(***************************************************************************)
(* C2.  The filtered data are exactly the records of the input, in their   *)
(* original order, whose region is allowed (or no region is selected),     *)
(* whose product is allowed (or no product is selected) and whose date is  *)
(* within the inclusive range; the input is left as it was loaded.         *)
(***************************************************************************)
C2_FilterExact ==
    AfterFilter =>
        /\ filtered_df.rows = SelectSeq(df.rows, Retained)
        /\ filtered_df.columns = df.columns
        /\ df = ParseDates(read_csv(uploaded_file))

C2_Witness ==
    /\ pc = "grouped"
    /\ region_filter # {}
    /\ product_filter # {}
    /\ Len(df.rows) = 2
    /\ NumRecords = 1
    /\ Field(Records[1], cDate) = end_date
    /\ start_date < end_date

(***************************************************************************)
(* C3.  The daily series has one entry per distinct date of the retained   *)
(* records, in strictly increasing date order, and its values add up to    *)
(* the sales of the retained records.                                      *)
(***************************************************************************)
C3_AggregationSum ==
    AfterFilter =>
        /\ \A i \in 1..n_days - 1 : DayOf(i) < DayOf(i + 1)
        /\ {DayOf(i) : i \in 1..n_days} = {Field(Records[i], cDate) : i \in 1..NumRecords}
        /\ SumInts(ActualsFromTo(1, n_days)) = SumInts([i \in 1..NumRecords |-> SalesOfRecord(i)])

C3_Witness ==
    /\ pc = "grouped"
    /\ NumRecords = 2
    /\ n_days = 1
    /\ Actual(1) = SalesOfRecord(1) + SalesOfRecord(2)

(***************************************************************************)
(* C4.  The forecast has exactly `horizon` rows, dated last_date + 1,      *)
(* last_date + 2, ..., last_date + horizon, where last_date is the latest  *)
(* date of the retained records.                                           *)
(***************************************************************************)
C4_ForecastLength ==
    AfterForecast =>
        /\ forecast_horizon >= min_value
        /\ Len(forecast_df) = forecast_horizon
        /\ \A i \in 1..Len(forecast_df) : forecast_df[i].Date = LatestDate + i

C4_Witness ==
    /\ pc = "forecast"
    /\ forecast_horizon = MaxHorizon
    /\ n_days = 2
    /\ Field(Records[1], cDate) > Field(Records[NumRecords], cDate)

(***************************************************************************)
(* C5.  Every forecast row carries the same naive value, the total sales   *)
(* of the latest date, whatever the horizon.                               *)
(***************************************************************************)
C5_NaiveForecast ==
    AfterForecast =>
        \A i \in 1..Len(forecast_df) :
            forecast_df[i].Naive_Forecast = SumInts([r \in 1..NumRecords |-> SalesOnLatestDate(r)])

C5_Witness ==
    /\ pc = "forecast"
    /\ n_days = 2
    /\ Actual(1) # Actual(2)
    /\ Field(Records[1], cDate) = LatestDate
    /\ forecast_df[Len(forecast_df)].Naive_Forecast = SalesOfRecord(1)

(***************************************************************************)
(* C6.  The moving-average value is a number, the mean of the last         *)
(* min(7, n) values of the series, the same in every forecast row, and     *)
(* lies between the least and the greatest of those values.                *)
(***************************************************************************)
C6_MovingAverage ==
    AfterForecast =>
        LET k == MinInt(7, n_days)
            recent == {Actual(i) : i \in (n_days - k + 1)..n_days}
        IN \A i \in 1..Len(forecast_df) :
              LET ma == forecast_df[i].Moving_Average
              IN /\ ~IsNaN(ma)
                 /\ FracEq(ma, [n |-> SumInts(ActualsFromTo(n_days - k + 1, n_days)), d |-> k])
                 /\ FracLeq(Frac(SetMin(recent)), ma)
                 /\ FracLeq(ma, Frac(SetMax(recent)))

C6_Witness ==
    /\ pc = "forecast"
    /\ n_days = 8
    /\ Actual(1) = 2
    /\ \A i \in 2..8 : Actual(i) = -1
    /\ FracEq(forecast_df[1].Moving_Average, Frac(-1))

(***************************************************************************)
(* C7.  For a series of n >= 2 days the evaluation table has n - 1 rows,   *)
(* one per day after the first; each row's prediction is the previous      *)
(* day's actual, its absolute error |actual - prediction| and its squared  *)
(* error (actual - prediction)^2; MAE and the mean under RMSE's root are   *)
(* taken over all n - 1 rows.                                              *)
(***************************************************************************)
C7_EvaluationRows ==
    (pc = "done" /\ n_days >= 2) =>
        /\ Len(filtered_grouped_by_date) = n_days - 1
        /\ \A j \in 1..n_days - 1 :
              LET row == filtered_grouped_by_date[j]
              IN /\ row.Date = DayOf(j + 1)
                 /\ row.Actuals = Actual(j + 1)
                 /\ FracEq(row.Naive_Prediction, Frac(Actual(j)))
                 /\ FracEq(row.Absolute_Error, Frac(AbsDiff(j)))
                 /\ FracEq(row.Squared_Error, Frac(SqDiff(j)))
        /\ FracEq(mae, [n |-> SumInts([j \in 1..n_days - 1 |-> AbsDiff(j)]), d |-> n_days - 1])
        /\ FracEq(mse, [n |-> SumInts([j \in 1..n_days - 1 |-> SqDiff(j)]), d |-> n_days - 1])
        /\ rmse = [sqrt_of |-> mse]

C7_Witness ==
    /\ pc = "done"
    /\ n_days = 3
    /\ AbsDiff(1) = 3
    /\ AbsDiff(2) = 2
    /\ FracEq(mae, [n |-> 5, d |-> 2])
    /\ FracEq(mse, [n |-> 13, d |-> 2])

(***************************************************************************)
(* C8.  MAPE is the mean of absolute error / |actual| x 100 over exactly   *)
(* the evaluation rows whose actual is nonzero, so it is never negative,   *)
(* negative actuals included; a row whose actual is 0 adds no term to MAPE *)
(* but does add its error to MAE.                                          *)
(***************************************************************************)
C8_MapeExclusion ==
    (pc = "done" /\ n_days >= 2) =>
        LET NonzeroAt(j) == Actual(j + 1) # 0
            rows == SelectSeq([j \in 1..n_days - 1 |-> j], NonzeroAt)
            terms == [t \in 1..Len(rows) |->
                         [n |-> 100 * AbsDiff(rows[t]), d |-> Abs(Actual(rows[t] + 1))]]
        IN /\ FracEq(mape, MeanFracs(terms))
           /\ IsNaN(mape) \/ FracLeq(Frac(0), mape)
           /\ FracEq(mae, [n |-> SumInts([j \in 1..n_days - 1 |-> AbsDiff(j)]), d |-> n_days - 1])

(***************************************************************************)
(* C9.  A series of fewer than 2 days gets no evaluation: no MAE, RMSE or  *)
(* MAPE is computed or shown; a series of 2 or more days is evaluated to   *)
(* numbers.                                                                *)
(***************************************************************************)
C9_InsufficientData ==
    pc = "done" =>
        /\ n_days >= 2
        /\ ~IsNaN(mae)
        /\ ~IsNaN(mse)

(***************************************************************************)
(* C10.  When the filters retain no record, no error is raised, the daily  *)
(* series is empty, the only step left is the one into the "no data"       *)
(* state, and neither the key metrics nor the forecast nor the evaluation  *)
(* is computed or shown; when a record is retained, the "no data" state is *)
(* not reached.                                                            *)
(***************************************************************************)
C10_EmptyResult ==
    AfterFilter =>
        IF NumRecords = 0
        THEN /\ pc \in {"grouped", "no_data"}
             /\ pc = "grouped" => ENABLED NoData
             /\ n_days = 0
             /\ Unforecast
             /\ \A i \in 1..Len(ui) :
                   ui[i] \in {"success: CSV loaded successfully!",
                              "warning: No data for selected filters"}
             /\ pc = "no_data" <=> Shown("warning: No data for selected filters")
        ELSE /\ pc # "no_data"
             /\ ~Shown("warning: No data for selected filters")

C10_Witness ==
    /\ pc = "no_data"
    /\ Len(df.rows) = 2
    /\ NumRecords = 0
    /\ Shown("warning: No data for selected filters")

====
